---- MODULE Spec2Model ----
(***************************************************************************)
(* Mailbox state synchronization core of the IMAP server                   *)
(* (crates/imap/src/core/message.rs): the materializer fetch_messages, the *)
(* synchronizer synchronize_messages, the notification emitter             *)
(* write_mailbox_changes and SelectedMailbox::append_messages, run by      *)
(* session tasks against an object store that other sessions write to.    *)
(*                                                                         *)
(* Option<T> values are sequences of length 0 (None) or 1 (Some(x)); maps  *)
(* (AHashMap, BTreeMap) are functions over their key set.                  *)
(***************************************************************************)
EXTENDS Integers, Sequences, FiniteSets, TLC

\* ------------------------------------------------------------------ bounds
\* Message (document) ids of the account are 1..MaxMsgId.
MaxMsgId == 2
\* The store assigns at most MaxUid uids to the mailbox (uids 1..MaxUid).
MaxUid == 3
\* An APPEND command ingests at most MaxAppend messages.
MaxAppend == 1
\* The store commits at most MaxChange writes (change ids 1..MaxChange).
MaxChange == 4
\* With two tasks on the SelectedMailbox the store commits at most
\* MaxChangeConc writes.
MaxChangeConc == 2
\* Uids are u32; U32Max stands for u32::MAX, the width scaled down so that
\* the store's own uid counter (at most MaxUid) stays well below it.
U32Max == 7
\* The counter byte of a continuation key is u8; U8Max stands for u8::MAX,
\* the width scaled down.
U8Max == 3
\* MAX_VALUE_SIZE of the FoundationDB backend, scaled down: a stored value of
\* this many bytes or more is continued under the continuation keys.
MAX_VALUE_SIZE == 2
\* A direct call of append_messages passes at most MaxAppendArgs entries.
MaxAppendArgs == 2
\* The largest number written in a sequence set, the number of ranges of a
\* sequence set, and the store writes of the runs that resolve sequences.
MaxSeqNum == 3
MaxSeqItems == 1
MaxChangeSeq == 3
\* The database commits up to version MaxVersion.
MaxVersion == 3

MsgIds == 1..MaxMsgId
Tasks == {1, 2}

\* ------------------------------------------------------------------ values
None == << >>
Some(x) == << x >>
IsSome(o) == o # << >>
UnwrapOr(o, d) == IF o = << >> THEN d ELSE o[1]

EmptyMap == << >>
Put(f, k, v) == [x \in (DOMAIN f) \cup {k} |-> IF x = k THEN v ELSE f[x]]
Remove(f, ks) == [x \in (DOMAIN f) \ ks |-> f[x]]
Range(f) == {f[x] : x \in DOMAIN f}
SetMin(S) == CHOOSE x \in S : \A y \in S : x <= y
SetMax(S) == CHOOSE x \in S : \A y \in S : y <= x

\* All orders in which the elements of a finite set can be visited.
Orders(S) ==
    {s \in [1..Cardinality(S) -> S] : \A i, j \in 1..Cardinality(S) : i # j => s[i] # s[j]}

\* u32 addition where the build does not check overflow (release profile).
WrappingAdd(a, b) == (a + b) % (U32Max + 1)

ImapId(uid, seqnum) == [uid |-> uid, seqnum |-> seqnum]

\* UIDVALIDITY of the mailbox: property "cid" of the mailbox object, which no
\* operation of the model changes.
StoreUidValidity == 7

VARIABLES
    mailbox,      \* store: message id -> uid, the messages tagged with the mailbox
    change_id,    \* store: Option, last change id of the account's email collection
    uid_counter,  \* store: the next uid the store assigns in this mailbox
    state,        \* SelectedMailbox.state: the session's MailboxState
    cache_mailbox,\* Option: the shared cache's entry for this mailbox
    pc,           \* per task: where the task is suspended
    op,           \* per task: "sync", "write", "append", "fetch" or the name of the
                  \* sequence resolver operation, the call in progress
    is_qresync,   \* per task: argument of write_mailbox_changes
    modseq,       \* per task: local modseq (synchronize_messages) / APPEND change id
    message_ids,  \* per task: fetch_messages' bitmap of message ids
    new_modseq,   \* per task: fetch_messages' local modseq
    new_state,    \* per task: Option, the snapshot fetch_messages returned
    created_ids,  \* per task: the ImapUidToId list an APPEND collected
    buf,          \* per task: write_mailbox_changes' output buffer
    result,       \* per task: Option, what the task's last call returned
    seen,         \* history: uids that have been in state.id_to_imap
    expunged,     \* history: uid -> number of times the uid was announced expunged
    appended,     \* history: append_messages has been called
    saved_search, \* SessionData: Option, the ImapIds of the last saved SEARCH result
    sequence,     \* Option: the sequence set of the command's sequence resolver call
    is_uid,       \* whether that command is the UID form
    lock,         \* Option: the task that holds the mutex of SelectedMailbox.state
    fdb,          \* FoundationDB: the bytes under a key and under its continuation keys
    reader,       \* read_chunked_value: position, key counter, bytes read and result
    version,      \* FdbStore.version: the cached ReadVersion, and whether it has expired
    db_version,   \* FoundationDB: the version of the last commit
    trx           \* per task: read_trx's position, locals and the version it pinned

vars == << mailbox, change_id, uid_counter, state, cache_mailbox, pc, op, is_qresync,
           modseq, message_ids, new_modseq, new_state, created_ids, buf, result,
           seen, expunged, appended, saved_search, sequence, is_uid, lock, fdb, reader,
           version, db_version, trx >>

storeVars == << mailbox, change_id, uid_counter >>
localVars == << op, is_qresync, modseq, message_ids, new_modseq, new_state, created_ids, buf >>
histVars == << seen, expunged, appended >>
versionVars == << version, db_version, trx >>
fdbVars == << fdb, reader, versionVars >>
\* What the operations on the mailbox state leave alone.
resolverVars == << saved_search, sequence, is_uid >>
unlockedVars == << resolverVars, fdbVars >>
otherVars == << unlockedVars, lock >>
taskVars == << pc, result, localVars >>
\* The session and the store of its mailbox.
mailboxVarsBase == << storeVars, state, cache_mailbox, taskVars, histVars, resolverVars, lock >>
\* What a read of the database leaves alone.
mailboxVars == << mailboxVarsBase, versionVars >>

\* ------------------------------------------------------- fetch_messages
\* get_properties delivers the messages of the bitmap in ascending id order;
\* a message whose membership list has no entry for this mailbox is skipped,
\* and BTreeMap::insert replaces the value of a uid that is already present.
RECURSIVE UidMap(_, _, _)
UidMap(ids, mbox, uid_map) ==
    IF ids = {} THEN uid_map
    ELSE LET message_id == SetMin(ids) IN
         UidMap(ids \ {message_id}, mbox,
                IF message_id \in DOMAIN mbox
                THEN Put(uid_map, mbox[message_id], message_id)
                ELSE uid_map)

\* AssignUids with seqnum taken as the enumerate() index itself (line 123
\* without the + 1).
RECURSIVE AssignUids_ZeroBased(_, _, _)
AssignUids_ZeroBased(uid_map, seqnum, acc) ==
    IF DOMAIN uid_map = {} THEN acc
    ELSE LET uid == SetMin(DOMAIN uid_map)
             message_id == uid_map[uid]
         IN AssignUids_ZeroBased(Remove(uid_map, {uid}), seqnum + 1,
                [uid_max |-> IF uid > acc.uid_max THEN uid ELSE acc.uid_max,
                 id_to_imap |-> Put(acc.id_to_imap, message_id, ImapId(uid, seqnum)),
                 uid_to_id |-> Put(acc.uid_to_id, uid, message_id)])

\* The loop over uid_map in ascending uid order: acc is
\* [uid_max, id_to_imap, uid_to_id], seqnum the enumerate() index.
RECURSIVE AssignUids(_, _, _)
AssignUids(uid_map, seqnum, acc) ==
    IF DOMAIN uid_map = {} THEN acc
    ELSE LET uid == SetMin(DOMAIN uid_map)
             message_id == uid_map[uid]
         IN AssignUids(Remove(uid_map, {uid}), seqnum + 1,
                [uid_max |-> IF uid > acc.uid_max THEN uid ELSE acc.uid_max,
                 id_to_imap |-> Put(acc.id_to_imap, message_id, ImapId(uid, seqnum + 1)),
                 uid_to_id |-> Put(acc.uid_to_id, uid, message_id)])

\* The MailboxState fetch_messages returns from what its reads delivered.
MailboxStateOf(uid_map, uid_validity, mseq) ==
    LET r == AssignUids(uid_map, 0,
                 [uid_max |-> 0, id_to_imap |-> EmptyMap, uid_to_id |-> EmptyMap])
    IN [uid_next |-> WrappingAdd(r.uid_max, 1),
        uid_validity |-> uid_validity,
        total_messages |-> Cardinality(DOMAIN r.id_to_imap),
        id_to_imap |-> r.id_to_imap,
        uid_to_id |-> r.uid_to_id,
        uid_max |-> r.uid_max,
        modseq |-> mseq,
        next_state |-> None]

Uids(id_to_imap) == {id_to_imap[id].uid : id \in DOMAIN id_to_imap}

\* --------------------------------------------------- synchronize_messages
\* SynchronizeDiff without line 153-157: the deletions of an unconsumed
\* transition are dropped instead of taken over.
SynchronizeDiff_DropsPending(current_state, fetched, order) ==
    LET removed == {order[i] : i \in 1..Len(order)}
    IN [current_state EXCEPT
          !.id_to_imap = Remove(current_state.id_to_imap, removed),
          !.uid_to_id = Remove(current_state.uid_to_id,
                               {current_state.id_to_imap[id].uid : id \in removed}),
          !.modseq = fetched.modseq,
          !.next_state = Some([next_state |-> fetched,
                               deletions |-> [i \in 1..Len(order) |->
                                                current_state.id_to_imap[order[i]]]])]

\* SynchronizeDiff without line 165: uid_to_id keeps the removed uids.
SynchronizeDiff_KeepsUids(current_state, fetched, order) ==
    LET pending == IF current_state.next_state = None THEN << >>
                   ELSE current_state.next_state[1].deletions
        deletions == pending \o [i \in 1..Len(order) |-> current_state.id_to_imap[order[i]]]
        removed == {order[i] : i \in 1..Len(order)}
    IN [current_state EXCEPT
          !.id_to_imap = Remove(current_state.id_to_imap, removed),
          !.modseq = fetched.modseq,
          !.next_state = Some([next_state |-> fetched, deletions |-> deletions])]

\* SynchronizeDiff where the else branch of line 166 is taken for every
\* entry: the removed entries stay in id_to_imap under their old seqnum.
SynchronizeDiff_KeepsStale(current_state, fetched, order) ==
    LET pending == IF current_state.next_state = None THEN << >>
                   ELSE current_state.next_state[1].deletions
        deletions == pending \o [i \in 1..Len(order) |-> current_state.id_to_imap[order[i]]]
        removed == {order[i] : i \in 1..Len(order)}
    IN [current_state EXCEPT
          !.uid_to_id = Remove(current_state.uid_to_id,
                               {current_state.id_to_imap[id].uid : id \in removed}),
          !.modseq = fetched.modseq,
          !.next_state = Some([next_state |-> fetched, deletions |-> deletions])]

\* The locked section of synchronize_messages (lines 150-182). order is the
\* order in which the AHashMap iteration meets the entries that are removed.
SynchronizeDiff(current_state, fetched, order) ==
    LET pending == IF current_state.next_state = None THEN << >>
                   ELSE current_state.next_state[1].deletions
        deletions == pending \o [i \in 1..Len(order) |-> current_state.id_to_imap[order[i]]]
        removed == {order[i] : i \in 1..Len(order)}
    IN [current_state EXCEPT
          !.id_to_imap = Remove(current_state.id_to_imap, removed),
          !.uid_to_id = Remove(current_state.uid_to_id,
                               {current_state.id_to_imap[id].uid : id \in removed}),
          !.modseq = fetched.modseq,
          !.next_state = Some([next_state |-> fetched, deletions |-> deletions])]

\* The entries of id_to_imap whose uid the fetched snapshot does not hold.
RemovedIds(current_state, fetched) ==
    {id \in DOMAIN current_state.id_to_imap :
        current_state.id_to_imap[id].uid \notin DOMAIN fetched.uid_to_id}

\* --------------------------------------------------- write_mailbox_changes
\* Vec::sort_unstable on u32: ascending, equal elements kept.
RECURSIVE SortAsc(_)
SortAsc(s) ==
    IF s = << >> THEN << >>
    ELSE LET m == SetMin(Range(s))
             i == CHOOSE k \in 1..Len(s) : s[k] = m
         IN << m >> \o SortAsc(SubSeq(s, 1, i - 1) \o SubSeq(s, i + 1, Len(s)))

Response(kind, n, ids) == [kind |-> kind, n |-> n, ids |-> ids]

\* expunge::Response::serialize_to of the protocol crate: in QRESYNC mode one
\* VANISHED with the uid set, otherwise one numbered EXPUNGE per id, each
\* renumbered by the count of expunges already emitted.
ExpungeSerialize(qresync, ids) ==
    IF qresync THEN << Response("VANISHED", 0, ids) >>
    ELSE [i \in 1..Len(ids) |->
            Response("EXPUNGE", IF ids[i] > i - 1 THEN ids[i] - (i - 1) ELSE 0, << >>)]

\* ExpungeIds without line 205: the ids are left in the order of the list.
ExpungeIds_Unsorted(deletions, qresync) ==
    [i \in 1..Len(deletions) |->
        IF qresync THEN deletions[i].uid ELSE deletions[i].seqnum]

\* The ids handed to expunge::Response (lines 200-205).
ExpungeIds(deletions, qresync) ==
    SortAsc([i \in 1..Len(deletions) |->
                IF qresync THEN deletions[i].uid ELSE deletions[i].seqnum])

\* EmitsExists without lines 209-213: only an expunge triggers Exists.
EmitsExists_OnlyAfterExpunge(out, next, current_state) ==
    out # << >>

\* The condition under which Exists is serialized (lines 208-214).
EmitsExists(out, next, current_state) ==
    out # << >> \/ (IF next.uid_max > current_state.uid_max
                    THEN next.uid_max - current_state.uid_max ELSE 0) > 0

\* WriteChanges where line 220 installs the staged maps and modseq but
\* leaves the session's total_messages as it was.
WriteChanges_KeepsTotal(current_state, qresync) ==
    IF current_state.next_state = None
    THEN [state |-> current_state, buf |-> << >>]
    ELSE LET next_state == current_state.next_state[1]
             buf1 == IF next_state.deletions # << >>
                     THEN ExpungeSerialize(qresync, ExpungeIds(next_state.deletions, qresync))
                     ELSE << >>
             buf2 == IF EmitsExists(buf1, next_state.next_state, current_state)
                     THEN buf1 \o << Response("EXISTS", next_state.next_state.total_messages, << >>) >>
                     ELSE buf1
         IN [state |-> [next_state.next_state EXCEPT
                           !.total_messages = current_state.total_messages],
             buf |-> buf2]

\* The locked section of write_mailbox_changes (lines 197-221): the state it
\* leaves and the buffer it built.
WriteChanges(current_state, qresync) ==
    IF current_state.next_state = None
    THEN [state |-> current_state, buf |-> << >>]
    ELSE LET next_state == current_state.next_state[1]
             buf1 == IF next_state.deletions # << >>
                     THEN ExpungeSerialize(qresync, ExpungeIds(next_state.deletions, qresync))
                     ELSE << >>
             buf2 == IF EmitsExists(buf1, next_state.next_state, current_state)
                     THEN buf1 \o << Response("EXISTS", next_state.next_state.total_messages, << >>) >>
                     ELSE buf1
         IN [state |-> next_state.next_state, buf |-> buf2]

\* ------------------------------------------------------- append_messages
\* AppendLoop where seqnum is read before total_messages is incremented
\* (lines 353 and 354 swapped).
RECURSIVE AppendLoop_SeqBeforeIncrement(_, _, _)
AppendLoop_SeqBeforeIncrement(mbox, ids, uid_max) ==
    IF ids = << >> THEN [mailbox |-> mbox, uid_max |-> uid_max]
    ELSE LET id == Head(ids)
             total == mbox.total_messages + 1
         IN AppendLoop_SeqBeforeIncrement([mbox EXCEPT
                          !.total_messages = total,
                          !.uid_to_id = Put(mbox.uid_to_id, id.uid, id.uid),
                          !.id_to_imap = Put(mbox.id_to_imap, id.id,
                                             ImapId(id.uid, mbox.total_messages))],
                       Tail(ids), id.uid)

\* The loop of lines 352-364 over the entries in argument order.
RECURSIVE AppendLoop(_, _, _)
AppendLoop(mbox, ids, uid_max) ==
    IF ids = << >> THEN [mailbox |-> mbox, uid_max |-> uid_max]
    ELSE LET id == Head(ids)
             total == mbox.total_messages + 1
         IN AppendLoop([mbox EXCEPT
                          !.total_messages = total,
                          !.uid_to_id = Put(mbox.uid_to_id, id.uid, id.uid),
                          !.id_to_imap = Put(mbox.id_to_imap, id.id, ImapId(id.uid, total))],
                       Tail(ids), id.uid)

\* AppendMessagesTo that also records the modseq it was given.
AppendMessagesTo_RecordsModseq(mbox, ids, mseq) ==
    IF UnwrapOr(mseq, 0) > UnwrapOr(mbox.modseq, 0)
    THEN LET r == AppendLoop(mbox, ids, 0)
         IN [r.mailbox EXCEPT !.uid_max = r.uid_max,
                              !.uid_next = WrappingAdd(r.uid_max, 1),
                              !.modseq = mseq]
    ELSE mbox

\* append_messages (lines 348-367) on the locked state.
AppendMessagesTo(mbox, ids, mseq) ==
    IF UnwrapOr(mseq, 0) > UnwrapOr(mbox.modseq, 0)
    THEN LET r == AppendLoop(mbox, ids, 0)
         IN [r.mailbox EXCEPT !.uid_max = r.uid_max, !.uid_next = WrappingAdd(r.uid_max, 1)]
    ELSE mbox

\* ------------------------------------------------------- sequence resolver
\* Sequence of the protocol crate: the saved-search reference $, or a set of
\* ranges lo:hi over the positive numbers in which 0 stands for '*'; the
\* number n is the range n:n.
SavedSearch == [kind |-> "SavedSearch", items |-> {}]
SequenceItems ==
    {r \in (0..MaxSeqNum) \X (0..MaxSeqNum) :
        /\ r[1] = 0 => r[2] = 0
        /\ r[2] # 0 => r[1] <= r[2]}
Sequences ==
    {SavedSearch} \cup
    {[kind |-> "Set", items |-> I] :
        I \in {X \in SUBSET SequenceItems : Cardinality(X) \in 1..MaxSeqItems}}

is_saved_search(sequence_) == sequence_.kind = "SavedSearch"

\* '*' resolves to max_value.
Resolve(n, max_value) == IF n = 0 THEN max_value ELSE n

\* Sequence::contains: value lies in one of the ranges, whose ends may come
\* in either order once '*' is resolved.
Contains(sequence_, value, max_value) ==
    \E r \in sequence_.items :
        LET a == Resolve(r[1], max_value)
            b == Resolve(r[2], max_value)
        IN /\ (IF a <= b THEN a ELSE b) <= value
           /\ value <= (IF a <= b THEN b ELSE a)

\* The elements of a finite set of numbers in ascending order.
RECURSIVE Ascending(_)
Ascending(S) == IF S = {} THEN << >> ELSE << SetMin(S) >> \o Ascending(S \ {SetMin(S)})

\* Sequence::expand: the monotonic enumeration of the resolved set.
Expand(sequence_, max_value) ==
    Ascending({n \in 0..(MaxSeqNum + max_value) : Contains(sequence_, n, max_value)})

\* SequenceToIds where uid mode resolves '*' to total_messages.
SequenceToIds_StarIsTotal(st, sequence_, uid) ==
    IF DOMAIN st.id_to_imap = {} THEN EmptyMap
    ELSE [id \in {i \in DOMAIN st.id_to_imap :
                     Contains(sequence_,
                              IF uid THEN st.id_to_imap[i].uid ELSE st.id_to_imap[i].seqnum,
                              st.total_messages)}
            |-> st.id_to_imap[id]]

\* sequence_to_ids, lines 280-300: the scan of id_to_imap under the lock.
SequenceToIds(st, sequence_, uid) ==
    IF DOMAIN st.id_to_imap = {} THEN EmptyMap
    ELSE IF uid
    THEN [id \in {i \in DOMAIN st.id_to_imap :
                     Contains(sequence_, st.id_to_imap[i].uid, st.uid_max)}
            |-> st.id_to_imap[id]]
    ELSE [id \in {i \in DOMAIN st.id_to_imap :
                     Contains(sequence_, st.id_to_imap[i].seqnum, st.total_messages)}
            |-> st.id_to_imap[id]]

\* sequence_to_ids, lines 306-313: each saved ImapId whose uid is a key of
\* uid_to_id goes into the result under the value found there.
RECURSIVE SavedToIds(_, _, _)
SavedToIds(st, saved_ids, ids) ==
    IF saved_ids = << >> THEN ids
    ELSE LET imap_id == Head(saved_ids) IN
         SavedToIds(st, Tail(saved_ids),
                    IF imap_id.uid \in DOMAIN st.uid_to_id
                    THEN Put(ids, st.uid_to_id[imap_id.uid], imap_id)
                    ELSE ids)

\* ExpandMissing where the UID form expands the set up to total_messages.
ExpandMissing_LimitIsTotal(st, saved, sequence_, uid) ==
    SortAsc(
        IF ~is_saved_search(sequence_)
        THEN IF uid
             THEN SelectSeq(Expand(sequence_, st.total_messages),
                         LAMBDA u : u \notin DOMAIN st.uid_to_id)
             ELSE SelectSeq(Expand(sequence_, st.total_messages),
                         LAMBDA seqnum : seqnum > st.total_messages)
        ELSE IF saved # None
        THEN LET missing == SelectSeq(saved[1], LAMBDA id : id.uid \notin DOMAIN st.uid_to_id)
             IN [i \in 1..Len(missing) |->
                    IF uid THEN missing[i].uid ELSE missing[i].seqnum]
        ELSE << >>)

\* sequence_expand_missing, lines 320-345.
ExpandMissing(st, saved, sequence_, uid) ==
    SortAsc(
        IF ~is_saved_search(sequence_)
        THEN IF uid
             THEN SelectSeq(Expand(sequence_, st.uid_max),
                         LAMBDA u : u \notin DOMAIN st.uid_to_id)
             ELSE SelectSeq(Expand(sequence_, st.total_messages),
                         LAMBDA seqnum : seqnum > st.total_messages)
        ELSE IF saved # None
        THEN LET missing == SelectSeq(saved[1], LAMBDA id : id.uid \notin DOMAIN st.uid_to_id)
             IN [i \in 1..Len(missing) |->
                    IF uid THEN missing[i].uid ELSE missing[i].seqnum]
        ELSE << >>)

\* ------------------------------------------------------ read_chunked_value
Bytes == {0, 1}
BytesUpTo(n) == UNION {[1..k -> Bytes] : k \in 0..n}

\* What the database holds under a key and under key || c for the counter
\* bytes c: any primary value, any chunks under any of the counters.
FdbContents ==
    [primary : {None} \cup {Some(b) : b \in BytesUpTo(MAX_VALUE_SIZE)},
     chunks : UNION {[cs -> [1..1 -> Bytes]] : cs \in SUBSET (0..U8Max)}]

ChunkedValue(kind, bytes, n_chunks) == [kind |-> kind, bytes |-> bytes, n_chunks |-> n_chunks]

ReaderIdle == [pc |-> "idle", key |-> 0, value |-> << >>, n_reads |-> 0, result |-> None]

\* The reads of the loop are bounded for the case that the counter wraps and
\* the loop goes round again.
MaxReads == 2 * (U8Max + 1)

\* get_value (lines 51-56): the key is serialized, the transaction opened.
GetValueCall ==
    /\ reader.pc = "idle"
    /\ reader' = [ReaderIdle EXCEPT !.pc = "get"]
    /\ UNCHANGED << fdb, mailboxVars >>

\* read_chunked_value, lines 167-176 and 188-190: the read of the primary key.
ReadPrimary ==
    /\ reader.pc = "get"
    /\ reader' =
         IF fdb.primary = None
         THEN [reader EXCEPT !.pc = "done", !.result = Some(ChunkedValue("None", << >>, 0))]
         ELSE IF Len(fdb.primary[1]) < MAX_VALUE_SIZE
         THEN [reader EXCEPT !.pc = "done",
                             !.result = Some(ChunkedValue("Single", fdb.primary[1], 0))]
         ELSE [reader EXCEPT !.pc = "loop", !.value = fdb.primary[1], !.key = 0]
    /\ UNCHANGED << fdb, mailboxVars >>

\* ReadContinuation that stops after the first continuation chunk.
ReadContinuation_OneChunk ==
    /\ reader.pc = "loop"
    /\ reader.n_reads < MaxReads
    /\ IF reader.key \in DOMAIN fdb.chunks /\ reader.key = 0
       THEN reader' = [reader EXCEPT !.value = @ \o fdb.chunks[reader.key],
                                     !.key = reader.key + 1,
                                     !.n_reads = @ + 1]
       ELSE reader' = [reader EXCEPT !.pc = "done", !.n_reads = @ + 1,
                          !.result = Some(ChunkedValue("Chunked", reader.value, reader.key))]
    /\ UNCHANGED << fdb, mailboxVars >>

\* read_chunked_value, lines 178-186: one round of the while loop. The += 1
\* of line 180 on the counter byte u8::MAX overflows: a build with overflow
\* checks panics, one without goes on with counter 0.
ReadContinuation ==
    /\ reader.pc = "loop"
    /\ reader.n_reads < MaxReads
    /\ IF reader.key \in DOMAIN fdb.chunks
       THEN \/ reader' = [reader EXCEPT !.value = @ \o fdb.chunks[reader.key],
                                        !.key = (reader.key + 1) % (U8Max + 1),
                                        !.n_reads = @ + 1]
            \/ /\ reader.key = U8Max
               /\ reader' = [reader EXCEPT !.pc = "panicked", !.n_reads = @ + 1]
       ELSE reader' = [reader EXCEPT !.pc = "done", !.n_reads = @ + 1,
                          !.result = Some(ChunkedValue("Chunked", reader.value, reader.key))]
    /\ UNCHANGED << fdb, mailboxVars >>

\* get_value, lines 57-61: Single and Chunked both deliver their bytes, None
\* delivers None.
GetValueResult ==
    IF reader.result[1].kind = "None" THEN None ELSE Some(reader.result[1].bytes)

\* ---------------------------------------------------------------- read_trx
\* ReadVersion of the store backend: the version and whether its time to
\* live has run out; ReadVersion::new starts a new time to live, and the
\* store begins with no version, which counts as expired.
ReadVersion(v, expired) == [version |-> v, expired |-> expired]
ReadVersionNew(v) == ReadVersion(v, FALSE)

TrxIdle == [pc |-> "idle", is_expired |-> FALSE, read_version |-> 0, pinned |-> None]

InitVersion ==
    /\ version = ReadVersion(0, TRUE)
    /\ db_version = 1
    /\ trx = [t \in Tasks |-> TrxIdle]

\* What read_trx leaves alone.
nonVersionVars == << mailboxVarsBase, fdb, reader >>

\* Another transaction commits: the database has a newer version.
Commit ==
    /\ db_version < MaxVersion
    /\ db_version' = db_version + 1
    /\ UNCHANGED << version, trx, nonVersionVars >>

\* The time to live of the cached version runs out.
Expire ==
    /\ ~version.expired
    /\ version' = [version EXCEPT !.expired = TRUE]
    /\ UNCHANGED << db_version, trx, nonVersionVars >>

\* read_trx, lines 145-149: under the lock of the cache the call reads
\* is_expired() and the version; with an unexpired version it goes on to
\* line 156.
ReadTrxCall(t) ==
    /\ trx[t].pc \in {"idle", "done", "failed"}
    /\ trx' = [trx EXCEPT ![t] =
                 IF version.expired
                 THEN [pc |-> "get_read_version", is_expired |-> TRUE,
                       read_version |-> version.version, pinned |-> None]
                 ELSE [pc |-> "done", is_expired |-> FALSE,
                       read_version |-> version.version, pinned |-> Some(version.version)]]
    /\ UNCHANGED << version, db_version, nonVersionVars >>

\* Line 152: the database answers with its latest version; the task goes on
\* when it is scheduled again.
GetReadVersion(t) ==
    /\ trx[t].pc = "get_read_version"
    /\ trx' = [trx EXCEPT ![t].pc = "set_version", ![t].read_version = db_version]
    /\ UNCHANGED << version, db_version, nonVersionVars >>

\* Line 152, the `?`: the database fails to answer and read_trx returns the
\* error; the cache is left as it was and no transaction is handed out.
GetReadVersionErr(t) ==
    /\ trx[t].pc = "get_read_version"
    /\ trx' = [trx EXCEPT ![t].pc = "failed"]
    /\ UNCHANGED << version, db_version, nonVersionVars >>

\* Lines 153-156: the version goes into the cache, under its lock, and the
\* transaction is pinned to it.
StoreReadVersion(t) ==
    /\ trx[t].pc = "set_version"
    /\ version' = ReadVersionNew(trx[t].read_version)
    /\ trx' = [trx EXCEPT ![t].pc = "done", ![t].pinned = Some(trx[t].read_version)]
    /\ UNCHANGED << db_version, nonVersionVars >>

\* ------------------------------------------------- the state's mutex
\* StateLock where the guard outlives the section: the task still holds the
\* mutex at its next suspension point.
StateLock_Kept(t) ==
    /\ lock = None
    /\ lock' = Some(t)

\* state.lock() by task t (lines 147, 150, 197, 281, 307, 322, 337, 349): the
\* task gets the mutex once it is free, and the guard is dropped where its
\* scope ends (the condition of line 147, the blocks that end at lines 183
\* and 222, the returns of lines 283, 300, 315, 345 and 368), which in every
\* case is before the next suspension point of the task.
StateLock(t) ==
    /\ lock = None
    /\ lock' = None

\* ------------------------------------------------------------------ state
\* A call returns value: the task is idle again and its locals are gone.
Return(t, value) ==
    /\ pc' = [pc EXCEPT ![t] = "idle"]
    /\ result' = [result EXCEPT ![t] = Some(value)]
    /\ op' = [op EXCEPT ![t] = "none"]
    /\ is_qresync' = [is_qresync EXCEPT ![t] = FALSE]
    /\ modseq' = [modseq EXCEPT ![t] = None]
    /\ message_ids' = [message_ids EXCEPT ![t] = {}]
    /\ new_modseq' = [new_modseq EXCEPT ![t] = None]
    /\ new_state' = [new_state EXCEPT ![t] = None]
    /\ created_ids' = [created_ids EXCEPT ![t] = << >>]
    /\ buf' = [buf EXCEPT ![t] = << >>]

\* A call goes on to its next suspension point or locked section.
Goto(t, label) ==
    /\ pc' = [pc EXCEPT ![t] = label]
    /\ UNCHANGED result

InitLocals ==
    /\ pc = [t \in Tasks |-> "idle"]
    /\ result = [t \in Tasks |-> None]
    /\ op = [t \in Tasks |-> "none"]
    /\ is_qresync = [t \in Tasks |-> FALSE]
    /\ modseq = [t \in Tasks |-> None]
    /\ message_ids = [t \in Tasks |-> {}]
    /\ new_modseq = [t \in Tasks |-> None]
    /\ new_state = [t \in Tasks |-> None]
    /\ created_ids = [t \in Tasks |-> << >>]
    /\ buf = [t \in Tasks |-> << >>]

\* No search has been saved, and no value is being read.
InitOther ==
    /\ saved_search = None
    /\ sequence = None
    /\ is_uid = FALSE
    /\ lock = None
    /\ fdb = [primary |-> None, chunks |-> EmptyMap]
    /\ reader = ReaderIdle
    /\ InitVersion

\* The session has selected the mailbox, which is empty and has no change yet.
Init ==
    /\ mailbox = EmptyMap
    /\ change_id = None
    /\ uid_counter = 1
    /\ state = MailboxStateOf(EmptyMap, StoreUidValidity, None)
    /\ cache_mailbox = None
    /\ InitLocals
    /\ seen = {}
    /\ expunged = [u \in 1..MaxUid |-> 0]
    /\ appended = FALSE
    /\ InitOther

\* ------------------------------------------------- the store's write path
\* The change id a write is logged under, and the bound on writes.
NextChangeId == Some(UnwrapOr(change_id, 0) + 1)
CanWrite == UnwrapOr(change_id, 0) < MaxChange

\* Another session adds message m to the mailbox: the store assigns the
\* next uid and logs a change.
StoreAdd(m) ==
    /\ CanWrite
    /\ m \notin DOMAIN mailbox
    /\ uid_counter <= MaxUid
    /\ mailbox' = Put(mailbox, m, uid_counter)
    /\ uid_counter' = uid_counter + 1
    /\ change_id' = NextChangeId
    /\ UNCHANGED << state, cache_mailbox, taskVars, histVars, otherVars >>

\* Another session removes message m from the mailbox (expunge or move out).
StoreDelete(m) ==
    /\ CanWrite
    /\ m \in DOMAIN mailbox
    /\ mailbox' = Remove(mailbox, {m})
    /\ change_id' = NextChangeId
    /\ UNCHANGED << uid_counter, state, cache_mailbox, taskVars, histVars, otherVars >>

\* ------------------------------------------------------- the task's steps
\* A command calls synchronize_messages or write_mailbox_changes; the call
\* runs to its first suspension point, the change id read of get_modseq.
GetModseq(t, call, qresync) ==
    /\ pc[t] = "idle"
    /\ op' = [op EXCEPT ![t] = call]
    /\ is_qresync' = [is_qresync EXCEPT ![t] = qresync]
    /\ modseq' = [modseq EXCEPT ![t] = change_id]
    /\ pc' = [pc EXCEPT ![t] = "compare"]
    /\ result' = [result EXCEPT ![t] = None]
    /\ UNCHANGED << storeVars, state, cache_mailbox, message_ids, new_modseq, new_state,
                    created_ids, buf, histVars, otherVars >>

\* synchronize_messages returns Ok(modseq) (line 185): to the command, or to
\* its caller write_mailbox_changes, which goes on to its locked section.
SyncReturn(t) ==
    IF op[t] = "write"
    THEN /\ Goto(t, "emit")
         /\ UNCHANGED << op, is_qresync, modseq, message_ids, new_modseq, created_ids, buf >>
         /\ new_state' = [new_state EXCEPT ![t] = None]
    ELSE Return(t, modseq[t])

\* CompareModseq without the comparison of line 147: every call materializes.
CompareModseq_Always(t) ==
    /\ pc[t] = "compare"
    /\ Goto(t, "get_tag")
    /\ UNCHANGED localVars
    /\ UNCHANGED << storeVars, state, cache_mailbox, histVars, otherVars >>

\* Line 147: the recorded modseq is compared under the lock.
CompareModseq(t) ==
    /\ pc[t] = "compare"
    /\ IF state.modseq # modseq[t]
       THEN /\ Goto(t, "get_tag")
            /\ UNCHANGED localVars
       ELSE SyncReturn(t)
    /\ StateLock(t)
    /\ UNCHANGED << storeVars, state, cache_mailbox, histVars, unlockedVars >>

\* fetch_messages, first read: the membership bitmap.
FetchTag(t) ==
    /\ pc[t] = "get_tag"
    /\ message_ids' = [message_ids EXCEPT ![t] = DOMAIN mailbox]
    /\ Goto(t, "get_last_change_id")
    /\ UNCHANGED << storeVars, state, cache_mailbox, op, is_qresync, modseq, new_modseq,
                    new_state, created_ids, buf, histVars, otherVars >>

\* fetch_messages, the UIDVALIDITY read (of a value nothing changes) and
\* the change id read.
FetchModseq(t) ==
    /\ pc[t] = "get_last_change_id"
    /\ new_modseq' = [new_modseq EXCEPT ![t] = change_id]
    /\ Goto(t, "get_properties")
    /\ UNCHANGED << storeVars, state, cache_mailbox, op, is_qresync, modseq, message_ids,
                    new_state, created_ids, buf, histVars, otherVars >>

\* What fetch_messages returns when its last read, the per-message
\* properties, meets the store as it is now.
FetchResult(t) ==
    MailboxStateOf(UidMap(message_ids[t], mailbox, EmptyMap), StoreUidValidity, new_modseq[t])

\* fetch_messages, last read and the snapshot built from it; the snapshot
\* goes to the caller: synchronize_messages, or a command that materializes.
\* Where uid_max + 1 of line 130 overflows, a build with overflow checks
\* panics there and the task is gone; a build without them goes on with the
\* wrapped value.
FetchProperties(t) ==
    /\ pc[t] = "get_properties"
    /\ \/ /\ new_state' = [new_state EXCEPT ![t] = Some(FetchResult(t))]
          /\ Goto(t, IF op[t] = "fetch" THEN "fetched" ELSE "diff")
       \/ /\ FetchResult(t).uid_max = U32Max
          /\ new_state' = [new_state EXCEPT ![t] = None]
          /\ Goto(t, "panicked")
    /\ message_ids' = [message_ids EXCEPT ![t] = {}]
    /\ new_modseq' = [new_modseq EXCEPT ![t] = None]
    /\ UNCHANGED << storeVars, state, cache_mailbox, op, is_qresync, modseq,
                    created_ids, buf, histVars, otherVars >>

\* synchronize_messages, lines 150-182, under the lock.
Synchronize(t) ==
    /\ pc[t] = "diff"
    /\ \E order \in Orders(RemovedIds(state, new_state[t][1])) :
          state' = SynchronizeDiff(state, new_state[t][1], order)
    /\ cache_mailbox' = new_state[t]
    /\ SyncReturn(t)
    /\ StateLock(t)
    /\ UNCHANGED << storeVars, histVars, unlockedVars >>

\* The uids of a deletion list, counted into the history of announcements.
Announce(deletions) ==
    [u \in DOMAIN expunged |->
        expunged[u] + Cardinality({i \in 1..Len(deletions) : deletions[i].uid = u})]

\* write_mailbox_changes, lines 195-222, under the lock; with an empty
\* buffer the call returns Ok(modseq) at once (lines 223-227).
EmitChanges(t) ==
    /\ pc[t] = "emit"
    /\ LET r == WriteChanges(state, is_qresync[t]) IN
          /\ state' = r.state
          /\ IF r.buf # << >>
             THEN /\ Goto(t, "write_bytes")
                  /\ buf' = [buf EXCEPT ![t] = r.buf]
                  /\ UNCHANGED << op, is_qresync, modseq, message_ids, new_modseq,
                                  new_state, created_ids >>
             ELSE Return(t, modseq[t])
    /\ seen' = seen \cup Uids(state'.id_to_imap)
    /\ expunged' = IF state.next_state = None THEN expunged
                   ELSE Announce(state.next_state[1].deletions)
    /\ StateLock(t)
    /\ UNCHANGED << storeVars, cache_mailbox, appended, unlockedVars >>

\* write_mailbox_changes, lines 223-227: write_bytes sends the buffer to the
\* client, which leaves nothing of it in the session, and the call returns.
WriteBytes(t) ==
    /\ pc[t] = "write_bytes"
    /\ Return(t, modseq[t])
    /\ UNCHANGED << storeVars, state, cache_mailbox, histVars, otherVars >>

\* The session's own APPEND ingests one more message into the selected
\* mailbox: a store write, whose uid and change id the command keeps.
AppendIngest(t, m) ==
    /\ pc[t] \in {"idle", "ingest"}
    /\ Len(created_ids[t]) < MaxAppend
    /\ CanWrite
    /\ m \notin DOMAIN mailbox
    /\ uid_counter <= MaxUid
    /\ mailbox' = Put(mailbox, m, uid_counter)
    /\ uid_counter' = uid_counter + 1
    /\ change_id' = NextChangeId
    /\ created_ids' = [created_ids EXCEPT ![t] = Append(@, [id |-> m, uid |-> uid_counter])]
    /\ modseq' = [modseq EXCEPT ![t] = NextChangeId]
    /\ op' = [op EXCEPT ![t] = "append"]
    /\ pc' = [pc EXCEPT ![t] = "ingest"]
    /\ result' = [result EXCEPT ![t] = None]
    /\ UNCHANGED << state, cache_mailbox, is_qresync, message_ids, new_modseq, new_state,
                    buf, histVars, otherVars >>

\* The APPEND command then calls append_messages(created_ids, last_change_id),
\* which returns the uid_validity of the state (line 368).
AppendMessages(t) ==
    /\ pc[t] = "ingest"
    /\ state' = AppendMessagesTo(state, created_ids[t], modseq[t])
    /\ seen' = seen \cup Uids(state'.id_to_imap)
    /\ appended' = TRUE
    /\ Return(t, state.uid_validity)
    /\ StateLock(t)
    /\ UNCHANGED << storeVars, cache_mailbox, expunged, unlockedVars >>

\* The steps of synchronize_messages.
SyncStep(t) ==
    \/ CompareModseq(t)
    \/ FetchTag(t)
    \/ FetchModseq(t)
    \/ FetchProperties(t)
    \/ Synchronize(t)

\* A task that runs the commands of the session one after the other.
TaskStep(t) ==
    \/ \E qresync \in BOOLEAN : GetModseq(t, "write", qresync)
    \/ GetModseq(t, "sync", FALSE)
    \/ SyncStep(t)
    \/ EmitChanges(t)
    \/ WriteBytes(t)
    \/ \E m \in MsgIds : AppendIngest(t, m)
    \/ AppendMessages(t)

StoreStep == \E m \in MsgIds : StoreAdd(m) \/ StoreDelete(m)

\* One session task, and the other sessions' writes to the store.
Next == StoreStep \/ TaskStep(1)

Spec == Init /\ [][Next]_vars

\* A second task synchronizes the same SelectedMailbox while the first runs
\* its commands; the store commits at most MaxChangeConc writes.
WithinConc == UnwrapOr(change_id', 0) <= MaxChangeConc

NextConc ==
    \/ \E m \in MsgIds : StoreAdd(m) /\ WithinConc
    \/ \E m \in MsgIds : StoreDelete(m) /\ WithinConc
    \/ \E m \in MsgIds : AppendIngest(1, m) /\ WithinConc
    \/ AppendMessages(1)
    \/ \E qresync \in BOOLEAN : GetModseq(1, "write", qresync)
    \/ EmitChanges(1)
    \/ WriteBytes(1)
    \/ \E t \in Tasks : GetModseq(t, "sync", FALSE)
    \/ \E t \in Tasks : SyncStep(t)

SpecConc == Init /\ [][NextConc]_vars

\* ------------------------------------------------------ failing store reads
\* crate::op::Result: an error value, as against the Ok values of Return.
Err(e) == << "Err", e >>

\* get_modseq (lines 239-246): the change id read fails and the call, which
\* has not taken the lock yet, returns the error through the ? of line 146.
GetModseqFails(t) ==
    /\ pc[t] = "idle"
    /\ result' = [result EXCEPT ![t] = Some(Err("DatabaseFailure"))]
    /\ UNCHANGED << pc, localVars, storeVars, state, cache_mailbox, histVars, otherVars >>

\* The errors a read of fetch_messages can end in: any read can fail in the
\* store; the UIDVALIDITY read also finds the mailbox record or its cid
\* missing (lines 259-268).
FetchErrors(label) ==
    IF label = "get_last_change_id" THEN {"DatabaseFailure", "MailboxUnavailable"}
    ELSE {"DatabaseFailure"}

\* FetchFails where synchronize_messages had taken the pending transition
\* before fetching: the error path loses it.
FetchFails_DropsPending(t, e) ==
    /\ pc[t] \in {"get_tag", "get_last_change_id", "get_properties"}
    /\ e \in FetchErrors(pc[t])
    /\ Return(t, Err(e))
    /\ state' = [state EXCEPT !.next_state = None]
    /\ UNCHANGED << storeVars, cache_mailbox, histVars, otherVars >>

\* A read of fetch_messages fails: the ? of lines 56, 60, 76 and 88 returns
\* the error, and so does the ? of line 149 and that of line 194.
FetchFails(t, e) ==
    /\ pc[t] \in {"get_tag", "get_last_change_id", "get_properties"}
    /\ e \in FetchErrors(pc[t])
    /\ Return(t, Err(e))
    /\ UNCHANGED << storeVars, state, cache_mailbox, histVars, otherVars >>

\* One session task whose store reads can fail, and the other sessions'
\* writes to the store.
NextErr ==
    \/ StoreStep
    \/ \E qresync \in BOOLEAN : GetModseq(1, "write", qresync)
    \/ GetModseq(1, "sync", FALSE)
    \/ SyncStep(1)
    \/ EmitChanges(1)
    \/ WriteBytes(1)
    \/ GetModseqFails(1)
    \/ \E e \in {"DatabaseFailure", "MailboxUnavailable"} : FetchFails(1, e)

SpecErr == Init /\ [][NextErr]_vars

\* ------------------------------------------- fetch_messages on any contents
\* The mailbox holds any messages under any nonzero uids, the largest u32
\* among them, and two messages may share a uid; no further uid is assigned.
StoreContents == UNION {[ids -> (1..MaxUid) \cup {U32Max}] : ids \in SUBSET MsgIds}

InitFetch ==
    /\ mailbox \in StoreContents
    /\ change_id = IF mailbox = EmptyMap THEN None ELSE Some(1)
    /\ uid_counter = MaxUid + 1
    /\ state = MailboxStateOf(EmptyMap, StoreUidValidity, None)
    /\ cache_mailbox = None
    /\ InitLocals
    /\ seen = {}
    /\ expunged = [u \in 1..MaxUid |-> 0]
    /\ appended = FALSE
    /\ InitOther

\* A command (SELECT, STATUS) calls fetch_messages.
FetchCall(t) ==
    /\ pc[t] = "idle"
    /\ op' = [op EXCEPT ![t] = "fetch"]
    /\ pc' = [pc EXCEPT ![t] = "get_tag"]
    /\ result' = [result EXCEPT ![t] = None]
    /\ UNCHANGED << storeVars, state, cache_mailbox, is_qresync, modseq, message_ids,
                    new_modseq, new_state, created_ids, buf, histVars, otherVars >>

\* The command takes the snapshot.
FetchReturn(t) ==
    /\ pc[t] = "fetched"
    /\ Return(t, new_state[t][1])
    /\ UNCHANGED << storeVars, state, cache_mailbox, histVars, otherVars >>

NextFetch ==
    \/ \E m \in MsgIds : StoreDelete(m)
    \/ FetchCall(1)
    \/ FetchTag(1)
    \/ FetchModseq(1)
    \/ FetchProperties(1)
    \/ FetchReturn(1)

SpecFetch == InitFetch /\ [][NextFetch]_vars

\* ------------------------------------------ append_messages on any state
\* The session's state is a snapshot of some mailbox contents, with or
\* without a staged transition to contents that lack one of its messages.
InjectiveContents ==
    {c \in UNION {[ids -> 1..MaxUid] : ids \in SUBSET MsgIds} :
        \A m1, m2 \in DOMAIN c : m1 # m2 => c[m1] # c[m2]}

SnapshotOf(contents, mseq) ==
    MailboxStateOf(UidMap(DOMAIN contents, contents, EmptyMap), StoreUidValidity, mseq)

SessionStates(c1, c2, m0) ==
    {SnapshotOf(c1, m0)} \cup
    {SynchronizeDiff(SnapshotOf(c1, m0), SnapshotOf(c2, Some(UnwrapOr(m0, 0) + 1)), order) :
        order \in Orders(DOMAIN c1 \ DOMAIN c2)}

InitAppend ==
    /\ \E c1 \in InjectiveContents, m0 \in {None, Some(1)} :
         \E D \in {X \in SUBSET DOMAIN c1 : Cardinality(X) <= 1} :
            /\ mailbox = Remove(c1, D)
            /\ state \in SessionStates(c1, Remove(c1, D), m0)
    /\ change_id = state.modseq
    /\ uid_counter = MaxUid + 1
    /\ cache_mailbox = None
    /\ InitLocals
    /\ seen = {}
    /\ expunged = [u \in 1..MaxUid |-> 0]
    /\ appended = FALSE
    /\ InitOther

\* The lists a caller passes: entries of newly created messages, which have
\* distinct message ids that the session does not hold yet.
AppendArgs(current_state) ==
    {ids \in UNION {[1..k -> [id : MsgIds \ DOMAIN current_state.id_to_imap,
                              uid : 1..MaxUid]] : k \in 0..MaxAppendArgs} :
        \A i, j \in 1..Len(ids) : i # j => ids[i].id # ids[j].id}

ModseqArgs == {None} \cup {Some(n) : n \in 1..MaxChange}

\* A command (APPEND, COPY, MOVE) calls append_messages(ids, mseq).
AppendCall(t, ids, mseq) ==
    /\ pc[t] = "idle"
    /\ created_ids' = [created_ids EXCEPT ![t] = ids]
    /\ modseq' = [modseq EXCEPT ![t] = mseq]
    /\ op' = [op EXCEPT ![t] = "append"]
    /\ pc' = [pc EXCEPT ![t] = "ingest"]
    /\ result' = [result EXCEPT ![t] = None]
    /\ UNCHANGED << storeVars, state, cache_mailbox, is_qresync, message_ids, new_modseq,
                    new_state, buf, histVars, otherVars >>

NextAppend ==
    \/ /\ pc[1] = "idle"
       /\ \E ids \in AppendArgs(state), mseq \in ModseqArgs : AppendCall(1, ids, mseq)
    \/ AppendMessages(1)

SpecAppend == InitAppend /\ [][NextAppend]_vars

\* ------------------------------------------- sequence sets in the session
\* The results a SEARCH can save: the ImapIds of any of the messages of the
\* state, in any order.
SavedLists(st) ==
    UNION {Orders({st.id_to_imap[i] : i \in X}) : X \in SUBSET DOMAIN st.id_to_imap}

\* A SEARCH command with the SAVE option stores its result in the session.
SaveSearch(t, ids) ==
    /\ pc[t] = "idle"
    /\ saved_search' = Some(ids)
    /\ UNCHANGED << storeVars, state, cache_mailbox, taskVars, histVars, sequence, is_uid,
                    lock, fdbVars >>

\* A command (FETCH, STORE, COPY, EXPUNGE) calls sequence_to_ids or
\* sequence_expand_missing with the sequence set it was given.
ResolverCall(t, call, sequence_, uid) ==
    /\ pc[t] = "idle"
    /\ op' = [op EXCEPT ![t] = call]
    /\ sequence' = Some(sequence_)
    /\ is_uid' = uid
    /\ pc' = [pc EXCEPT ![t] = "resolve"]
    /\ result' = [result EXCEPT ![t] = None]
    /\ UNCHANGED << storeVars, state, cache_mailbox, is_qresync, modseq, message_ids,
                    new_modseq, new_state, created_ids, buf, histVars, saved_search, lock,
                    fdbVars >>

\* The resolver, which has taken the lock after the saved search was
\* obtained, returns value to the command, which still has the sequence set
\* it passed.
ResolverReturn(t, value) ==
    /\ pc' = [pc EXCEPT ![t] = "resolved"]
    /\ result' = [result EXCEPT ![t] = Some(value)]
    /\ StateLock(t)
    /\ UNCHANGED << storeVars, state, cache_mailbox, localVars, histVars, unlockedVars >>

\* sequence_to_ids (lines 274-317): Ok(ids), or the error of line 305.
sequence_to_ids(t) ==
    /\ pc[t] = "resolve"
    /\ op[t] = "sequence_to_ids"
    /\ ResolverReturn(t, IF ~is_saved_search(sequence[1])
                         THEN SequenceToIds(state, sequence[1], is_uid)
                         ELSE IF saved_search = None THEN Err("NoSavedSearch")
                         ELSE SavedToIds(state, saved_search[1], EmptyMap))

\* sequence_expand_missing (lines 319-346).
sequence_expand_missing(t) ==
    /\ pc[t] = "resolve"
    /\ op[t] = "sequence_expand_missing"
    /\ ResolverReturn(t, ExpandMissing(state, saved_search, sequence[1], is_uid))

\* The command has used what the resolver returned and ends; nothing is
\* left of its arguments.
CommandDone(t) ==
    /\ pc[t] = "resolved"
    /\ pc' = [pc EXCEPT ![t] = "idle"]
    /\ op' = [op EXCEPT ![t] = "none"]
    /\ result' = [result EXCEPT ![t] = None]
    /\ sequence' = None
    /\ is_uid' = FALSE
    /\ UNCHANGED << storeVars, state, cache_mailbox, is_qresync, modseq, message_ids,
                    new_modseq, new_state, created_ids, buf, histVars, saved_search, lock,
                    fdbVars >>

\* One session task that synchronizes, appends, saves searches and resolves
\* sequence sets, and the other sessions' writes to the store, of which
\* there are at most MaxChangeSeq.
WithinSeq == UnwrapOr(change_id', 0) <= MaxChangeSeq

NextSeq ==
    \/ \E m \in MsgIds : StoreAdd(m) /\ WithinSeq
    \/ \E m \in MsgIds : StoreDelete(m) /\ WithinSeq
    \/ \E m \in MsgIds : AppendIngest(1, m) /\ WithinSeq
    \/ AppendMessages(1)
    \/ GetModseq(1, "write", FALSE)
    \/ GetModseq(1, "sync", FALSE)
    \/ SyncStep(1)
    \/ EmitChanges(1)
    \/ WriteBytes(1)
    \/ \E ids \in SavedLists(state) : SaveSearch(1, ids)
    \/ \E call \in {"sequence_to_ids", "sequence_expand_missing"},
          sequence_ \in Sequences, uid \in BOOLEAN : ResolverCall(1, call, sequence_, uid)
    \/ sequence_to_ids(1)
    \/ sequence_expand_missing(1)
    \/ CommandDone(1)

SpecSeq == Init /\ [][NextSeq]_vars

\* ------------------------------------------------ get_value on any contents
InitRead ==
    /\ mailbox = EmptyMap
    /\ change_id = None
    /\ uid_counter = 1
    /\ state = MailboxStateOf(EmptyMap, StoreUidValidity, None)
    /\ cache_mailbox = None
    /\ InitLocals
    /\ seen = {}
    /\ expunged = [u \in 1..MaxUid |-> 0]
    /\ appended = FALSE
    /\ saved_search = None
    /\ sequence = None
    /\ is_uid = FALSE
    /\ lock = None
    /\ fdb \in FdbContents
    /\ reader = ReaderIdle
    /\ InitVersion

NextRead ==
    \/ GetValueCall
    \/ ReadPrimary
    \/ ReadContinuation

SpecRead == InitRead /\ [][NextRead]_vars

\* ------------------------------------------------ concurrent read_trx calls
\* Operations of any sessions open read transactions while other
\* transactions commit and the cached version's time to live runs out.
NextTrx ==
    \/ Commit
    \/ Expire
    \/ \E t \in Tasks : ReadTrxCall(t)
    \/ \E t \in Tasks : GetReadVersion(t)
    \/ \E t \in Tasks : GetReadVersionErr(t)
    \/ \E t \in Tasks : StoreReadVersion(t)

SpecTrx == Init /\ [][NextTrx]_vars

\* ================================================================ claims
PendingDeletions ==
    IF state.next_state = None THEN << >> ELSE state.next_state[1].deletions

PendingUids == {PendingDeletions[i].uid : i \in 1..Len(PendingDeletions)}

StoreUids == Range(mailbox)

\* C1: as long as the session only synchronizes and emits (no append_messages),
\* every uid that has been in id_to_imap is in exactly one of three places: still
\* in id_to_imap, once in the deletion list of the staged transition (also when
\* a later synchronization replaced the transition that first held it), or
\* announced by exactly one EXPUNGE; no uid is twice in a deletion list or
\* announced twice, and once the session is synchronized with the store every
\* uid that has left the mailbox has been announced.
C1_ExpungeExactlyOnce ==
    ~appended =>
      /\ \A i, j \in 1..Len(PendingDeletions) :
            i # j => PendingDeletions[i].uid # PendingDeletions[j].uid
      /\ \A u \in DOMAIN expunged : expunged[u] <= 1 /\ (expunged[u] = 1 => u \in seen)
      /\ \A u \in seen :
            LET in_view == u \in Uids(state.id_to_imap)
                is_pending == u \in PendingUids
                announced == expunged[u] = 1
            IN /\ in_view \/ is_pending \/ announced
               /\ ~(in_view /\ is_pending)
               /\ ~(in_view /\ announced)
               /\ ~(is_pending /\ announced)
      /\ (pc[1] = "idle" /\ state.next_state = None /\ state.modseq = change_id)
            => \A u \in seen \ StoreUids : expunged[u] = 1

\* C1 witness: a second synchronization is about to add a deletion to a staged
\* transition that already holds one.
C1_Witness ==
    /\ ~appended
    /\ pc[1] = "diff"
    /\ PendingDeletions # << >>
    /\ RemovedIds(state, new_state[1][1]) # {}

\* C1 witness of the outcome: two uids the session had seen are announced.
C1_WitnessAnnounced ==
    /\ ~appended
    /\ Cardinality({u \in DOMAIN expunged : expunged[u] = 1}) >= 2

\* C2: the locked section of synchronize_messages, with D the uids of
\* id_to_imap the fetched snapshot lacks and A the uids of the snapshot that
\* id_to_imap lacks: id_to_imap keeps exactly the entries outside D, unchanged;
\* uid_to_id loses exactly the keys in D; no uid of A enters id_to_imap or
\* uid_to_id; the staged snapshot holds the survivors and A, with seqnums 1..N
\* in ascending uid order.
C2_SyncStep(t) ==
    LET fetched == new_state[t][1]
        D == Uids(state.id_to_imap) \ DOMAIN fetched.uid_to_id
        A == DOMAIN fetched.uid_to_id \ Uids(state.id_to_imap)
        kept == {id \in DOMAIN state.id_to_imap : state.id_to_imap[id].uid \notin D}
        staged == state'.next_state[1].next_state
    IN /\ state'.id_to_imap = [id \in kept |-> state.id_to_imap[id]]
       /\ DOMAIN state'.uid_to_id = (DOMAIN state.uid_to_id) \ D
       /\ \A u \in DOMAIN state'.uid_to_id : state'.uid_to_id[u] = state.uid_to_id[u]
       /\ A \cap Uids(state'.id_to_imap) = {}
       /\ A \cap DOMAIN state'.uid_to_id = {}
       /\ state'.next_state # None
       /\ Uids(staged.id_to_imap) = (Uids(state.id_to_imap) \ D) \cup A
       /\ \A id \in DOMAIN staged.id_to_imap :
             staged.id_to_imap[id].seqnum =
                Cardinality({u \in Uids(staged.id_to_imap) : u <= staged.id_to_imap[id].uid})
       /\ {staged.id_to_imap[id].seqnum : id \in DOMAIN staged.id_to_imap}
             = 1..Cardinality(Uids(staged.id_to_imap))

C2_SurvivorsAndStaged ==
    [][\A t \in Tasks : (pc[t] = "diff" /\ pc'[t] # "diff") => C2_SyncStep(t)]_vars

\* C2 witness: a synchronization has staged a transition that removes a uid,
\* adds a uid and leaves a survivor.
C2_Witness ==
    /\ pc[1] = "idle"
    /\ state.next_state # None
    /\ PendingDeletions # << >>
    /\ state.id_to_imap # EmptyMap
    /\ Uids(state.next_state[1].next_state.id_to_imap) \ Uids(state.id_to_imap) # {}

\* C3: the locked section of write_mailbox_changes leaves next_state None;
\* with a staged transition the whole MailboxState becomes the staged snapshot
\* (which itself stages nothing), without one the state is unchanged, the
\* buffer is empty and write_bytes is not called; the call returns with
\* next_state None.
C3_EmitStep(t) ==
    /\ state'.next_state = None
    /\ IF state.next_state # None
       THEN /\ state' = state.next_state[1].next_state
            /\ state.next_state[1].next_state.next_state = None
       ELSE /\ state' = state
            /\ buf'[t] = << >>
            /\ pc'[t] = "idle"

C3_InstallsStaged ==
    [][\A t \in Tasks :
          /\ (pc[t] = "emit" /\ pc'[t] # "emit") => C3_EmitStep(t)
          /\ (pc[t] \in {"emit", "write_bytes"} /\ pc'[t] = "idle")
                => state'.next_state = None]_vars

\* C3 witness: a staged transition with messages has been installed and its
\* notifications are about to be written.
C3_Witness ==
    /\ pc[1] = "write_bytes"
    /\ state.next_state = None
    /\ state.total_messages > 0
    /\ state.modseq = change_id

\* The i-th smallest element of a set of numbers.
Nth(S, i) == CHOOSE x \in S : Cardinality({y \in S : y <= x}) = i

\* C4: with k pending deletions, whose pre-transition seqnums are distinct,
\* the buffer of a non-QRESYNC emission starts with k EXPUNGE responses, the
\* i-th carrying the i-th smallest seqnum minus (i - 1); a QRESYNC emission
\* starts with one response that lists the deleted uids in ascending order.
C4_EmitStep(t) ==
    LET deletions == state.next_state[1].deletions
        k == Len(deletions)
        seqnums == {deletions[i].seqnum : i \in 1..k}
        uids == {deletions[i].uid : i \in 1..k}
        out == buf'[t]
    IN IF is_qresync[t]
       THEN /\ Len(out) >= 1
            /\ out[1].kind = "VANISHED"
            /\ Len(out[1].ids) = k
            /\ \A i \in 1..k : out[1].ids[i] = Nth(uids, i)
            /\ \A i \in 2..Len(out) : out[i].kind # "VANISHED" /\ out[i].kind # "EXPUNGE"
       ELSE /\ Cardinality(seqnums) = k
            /\ Len(out) >= k
            /\ \A i \in 1..k :
                  out[i].kind = "EXPUNGE" /\ out[i].n = Nth(seqnums, i) - (i - 1)
            /\ \A i \in (k + 1)..Len(out) : out[i].kind # "EXPUNGE"

C4_ExpungeNumbers ==
    [][\A t \in Tasks :
          (pc[t] = "emit" /\ pc'[t] # "emit" /\ PendingDeletions # << >>)
             => C4_EmitStep(t)]_vars

\* C4 witness: the messages with seqnums 1 and 2 were removed and the buffer
\* announces "1 EXPUNGE" twice.
C4_Witness ==
    /\ pc[1] = "write_bytes"
    /\ Len(buf[1]) >= 2
    /\ buf[1][1] = Response("EXPUNGE", 1, << >>)
    /\ buf[1][2] = Response("EXPUNGE", 1, << >>)

\* C5: the emission holds an EXISTS exactly when a staged transition is
\* consumed and either an expunge response is in the buffer or the staged
\* uid_max is greater than the current uid_max; there is one EXISTS, it is
\* the last response of the buffer and carries the staged total_messages.
C5_EmitStep(t) ==
    LET out == buf'[t]
        exists_at == {i \in 1..Len(out) : out[i].kind = "EXISTS"}
        expunges_at == {i \in 1..Len(out) : out[i].kind \in {"EXPUNGE", "VANISHED"}}
    IN /\ (exists_at # {}) <=>
             /\ state.next_state # None
             /\ \/ expunges_at # {}
                \/ state.next_state[1].next_state.uid_max > state.uid_max
       /\ exists_at # {} =>
             /\ exists_at = {Len(out)}
             /\ out[Len(out)].n = state.next_state[1].next_state.total_messages
             /\ \A i \in expunges_at : i < Len(out)

C5_ExistsIff ==
    [][\A t \in Tasks : (pc[t] = "emit" /\ pc'[t] # "emit") => C5_EmitStep(t)]_vars

\* C5 witness: an emission whose only response is an EXISTS, for a staged
\* snapshot with a greater uid_max.
C5_Witness ==
    /\ pc[1] = "write_bytes"
    /\ Len(buf[1]) = 1
    /\ buf[1][1].kind = "EXISTS"
    /\ buf[1][1].n = state.total_messages
    /\ state.total_messages >= 2

\* C6: a snapshot of fetch_messages that carries the store's current change
\* id holds the store's current membership, and a session that has no call in
\* progress and no staged transition, and whose recorded modseq is the
\* store's change id, holds the store's membership.
SameMembership(id_to_imap) ==
    /\ DOMAIN id_to_imap = DOMAIN mailbox
    /\ \A id \in DOMAIN id_to_imap : id_to_imap[id].uid = mailbox[id]

C6_ModseqLabelsData ==
    ~appended =>
      /\ \A t \in Tasks :
            (new_state[t] # None /\ new_state[t][1].modseq = change_id)
               => SameMembership(new_state[t][1].id_to_imap)
      /\ ((\A t \in Tasks : pc[t] = "idle")
             /\ state.next_state = None /\ state.modseq = change_id)
            => SameMembership(state.id_to_imap)

\* C7: the modseq recorded in the session's MailboxState never decreases.
ModseqLeq(a, b) == a = None \/ (b # None /\ a[1] <= b[1])

C7_ModseqMonotonic == [][ModseqLeq(state.modseq, state'.modseq)]_vars

\* C8: the uid_next of the session's MailboxState never decreases (here for
\* a session that only synchronizes and emits).
C8_UidNextMonotonic == [][~appended' => state'.uid_next >= state.uid_next]_vars

\* C9: every MailboxState fetch_messages returns has uid_to_id's keys equal to
\* the uids of id_to_imap, uid_to_id[uid] the message whose ImapId has that
\* uid, seqnums 1..total_messages in ascending uid order, uid_max 0 when empty
\* and else the largest key of uid_to_id, uid_next = uid_max + 1, no uid 0 and
\* next_state None.
SnapshotInvariant(S) ==
    /\ DOMAIN S.uid_to_id = Uids(S.id_to_imap)
    /\ \A uid \in DOMAIN S.uid_to_id :
          /\ S.uid_to_id[uid] \in DOMAIN S.id_to_imap
          /\ S.id_to_imap[S.uid_to_id[uid]].uid = uid
    /\ S.total_messages = Cardinality(DOMAIN S.id_to_imap)
    /\ \A id \in DOMAIN S.id_to_imap :
          S.id_to_imap[id].seqnum =
             Cardinality({u \in Uids(S.id_to_imap) : u <= S.id_to_imap[id].uid})
    /\ {S.id_to_imap[id].seqnum : id \in DOMAIN S.id_to_imap} = 1..S.total_messages
    /\ S.uid_max = IF DOMAIN S.uid_to_id = {} THEN 0 ELSE SetMax(DOMAIN S.uid_to_id)
    /\ S.uid_next = S.uid_max + 1
    /\ 0 \notin Uids(S.id_to_imap) /\ 0 \notin DOMAIN S.uid_to_id
    /\ S.next_state = None

C9_SnapshotInvariants ==
    \A t \in Tasks : new_state[t] # None => SnapshotInvariant(new_state[t][1])

\* The invariants of C9 for the snapshots whose uids are all below u32::MAX.
C9_BelowU32Max ==
    \A t \in Tasks :
       (new_state[t] # None /\ new_state[t][1].uid_max < U32Max)
          => SnapshotInvariant(new_state[t][1])

\* fetch_messages has returned a snapshot of a mailbox in which two messages
\* share a uid below u32::MAX.
C9_DuplicateUidFetched ==
    /\ pc[1] = "fetched"
    /\ \E m1, m2 \in DOMAIN mailbox :
          m1 # m2 /\ mailbox[m1] = mailbox[m2] /\ mailbox[m1] < U32Max
    /\ new_state[1][1].total_messages = 1

\* C10: when get_modseq finds the store's change id equal to the recorded
\* modseq, synchronize_messages changes nothing: the MailboxState with its
\* staged transition and the shared cache stay as they are, fetch_messages is
\* not called, and the call returns that modseq.
C10_NoOpStep(t) ==
    /\ state' = state
    /\ cache_mailbox' = cache_mailbox
    /\ pc'[t] = IF op[t] = "write" THEN "emit" ELSE "idle"
    /\ new_state'[t] = None
    /\ op[t] = "sync" => result'[t] = Some(state.modseq)
    /\ op[t] = "write" => modseq'[t] = state.modseq

C10_NoOpWhenUnchanged ==
    [][\A t \in Tasks :
          /\ (pc[t] = "idle" /\ pc'[t] = "compare" /\ change_id = state.modseq)
                => (modseq'[t] = state.modseq /\ state' = state
                    /\ cache_mailbox' = cache_mailbox)
          /\ (pc[t] = "compare" /\ pc'[t] # "compare" /\ modseq[t] = state.modseq)
                => C10_NoOpStep(t)]_vars

\* C10 witness: synchronize_messages has read a change id equal to the
\* recorded modseq while a transition with deletions is staged.
C10_Witness ==
    /\ pc[1] = "compare"
    /\ op[1] = "sync"
    /\ modseq[1] = state.modseq
    /\ change_id = state.modseq
    /\ PendingDeletions # << >>

\* C11 as stated: after synchronize_messages has found a message of the
\* session's id_to_imap deleted, id_to_imap still maps that message under its
\* old seqnum.
C11_StaleEntryKept ==
    [][\A t \in Tasks :
          (pc[t] = "diff" /\ pc'[t] # "diff")
             => \A id \in RemovedIds(state, new_state[t][1]) :
                   /\ id \in DOMAIN state'.id_to_imap
                   /\ state'.id_to_imap[id] = state.id_to_imap[id]]_vars

\* C11 amended: synchronize_messages takes the deleted message out of
\* id_to_imap and puts its ImapId, with the old seqnum, on the staged deletion
\* list, where it stays until write_mailbox_changes consumes the transition
\* and announces it; the surviving entries keep their old seqnums until then.
C11_SyncStep(t) ==
    \A id \in DOMAIN state.id_to_imap :
       IF id \in RemovedIds(state, new_state[t][1])
       THEN /\ id \notin DOMAIN state'.id_to_imap
            /\ \E i \in 1..Len(state'.next_state[1].deletions) :
                  state'.next_state[1].deletions[i] = state.id_to_imap[id]
       ELSE /\ id \in DOMAIN state'.id_to_imap
            /\ state'.id_to_imap[id] = state.id_to_imap[id]

C11_EmitStep(t) ==
    PendingDeletions # << >> =>
       /\ Len(buf'[t]) >= 1
       /\ buf'[t][1].kind = IF is_qresync[t] THEN "VANISHED" ELSE "EXPUNGE"
       /\ state' = state.next_state[1].next_state

C11_StaleEntryStaged ==
    [][/\ \A t \in Tasks :
            /\ (pc[t] = "diff" /\ pc'[t] # "diff") => C11_SyncStep(t)
            /\ (pc[t] = "emit" /\ pc'[t] # "emit") => C11_EmitStep(t)
       /\ (state.next_state # None /\ state'.next_state # None)
            => /\ Len(state'.next_state[1].deletions) >= Len(PendingDeletions)
               /\ SubSeq(state'.next_state[1].deletions, 1, Len(PendingDeletions))
                     = PendingDeletions]_vars

\* C11 witness: another session deleted a message the session held, and
\* synchronize_messages has staged its ImapId while a survivor with a higher
\* seqnum is still in id_to_imap.
C11_Witness ==
    /\ pc[1] = "idle"
    /\ ~appended
    /\ Len(PendingDeletions) = 1
    /\ \E id \in DOMAIN state.id_to_imap :
          state.id_to_imap[id].seqnum > PendingDeletions[1].seqnum

\* C12: append_messages(ids, modseq) with modseq greater than the recorded
\* modseq (None counting as 0) raises total_messages by the number k of
\* entries and inserts the i-th entry under ImapId(uid_i, old total + i),
\* leaving the ImapId of every entry already present; with modseq not greater
\* it adds nothing; in both cases it returns the state's uid_validity.
AppendApplies(t) == UnwrapOr(modseq[t], 0) > UnwrapOr(state.modseq, 0)

C12_AppendStep(t) ==
    LET ids == created_ids[t]
        k == Len(ids)
    IN /\ result'[t] = Some(state.uid_validity)
       /\ IF AppendApplies(t)
          THEN /\ state'.total_messages = state.total_messages + k
               /\ DOMAIN state'.id_to_imap =
                     DOMAIN state.id_to_imap \cup {ids[i].id : i \in 1..k}
               /\ \A i \in 1..k :
                     state'.id_to_imap[ids[i].id]
                        = ImapId(ids[i].uid, state.total_messages + i)
               /\ \A id \in DOMAIN state.id_to_imap :
                     state'.id_to_imap[id] = state.id_to_imap[id]
          ELSE /\ state'.id_to_imap = state.id_to_imap
               /\ state'.total_messages = state.total_messages

C13_AppendStep(t) ==
    /\ state'.next_state = state.next_state
    /\ state'.uid_validity = state.uid_validity
    /\ state'.modseq = state.modseq
    /\ ~AppendApplies(t) => state' = state

C13_AppendKeepsTransition ==
    [][\A t \in Tasks : (pc[t] = "ingest" /\ pc'[t] = "idle") => C13_AppendStep(t)]_vars

\* C13 witness: append_messages has added an entry while a transition with a
\* deletion is staged.
C13_Witness ==
    /\ pc[1] = "idle"
    /\ appended
    /\ PendingDeletions # << >>
    /\ state.total_messages > Cardinality(DOMAIN state.next_state[1].next_state.id_to_imap) + 1

\* C14: a failing store read makes synchronize_messages or
\* write_mailbox_changes return DatabaseFailure (MailboxUnavailable only from
\* the UIDVALIDITY read), with the MailboxState, its pending transition and
\* deletion list and the cache as before the call and nothing written or
\* announced; a pending deletion list is never shortened except by the
\* write_mailbox_changes that announces every entry of it.
IsErr(r) == r \in {Some(Err(e)) : e \in {"DatabaseFailure", "MailboxUnavailable"}}

C14_FailStep(t) ==
    /\ state' = state
    /\ cache_mailbox' = cache_mailbox
    /\ expunged' = expunged
    /\ pc'[t] = "idle"
    /\ buf'[t] = << >>
    /\ result'[t] = Some(Err("MailboxUnavailable")) => pc[t] = "get_last_change_id"

C14_PendingStep ==
    \/ /\ state'.next_state # None
       /\ Len(state'.next_state[1].deletions) >= Len(PendingDeletions)
       /\ SubSeq(state'.next_state[1].deletions, 1, Len(PendingDeletions)) = PendingDeletions
    \/ \E t \in Tasks :
          /\ pc[t] = "emit"
          /\ Len(buf'[t]) >= 1
          /\ \A u \in DOMAIN expunged :
                expunged'[u] = expunged[u]
                   + Cardinality({i \in 1..Len(PendingDeletions) : PendingDeletions[i].uid = u})

C14_ReadFailureKeepsState ==
    [][/\ \A t \in Tasks :
            (IsErr(result'[t]) /\ (pc[t] # "idle" \/ result'[t] # result[t]))
               => C14_FailStep(t)
       /\ PendingDeletions # << >> => C14_PendingStep]_vars

\* C14 witness: a call has failed at the UIDVALIDITY read of fetch_messages
\* while a transition with deletions was pending and the store had changed,
\* and the transition is still pending.
C14_Witness ==
    /\ pc[1] = "idle"
    /\ result[1] = Some(Err("MailboxUnavailable"))
    /\ PendingDeletions # << >>
    /\ change_id # state.modseq

\* C18: for contents with at most u8::MAX continuation chunks get_value
\* returns None when the primary key is absent; the primary bytes alone,
\* after no continuation read, when they are shorter than MAX_VALUE_SIZE;
\* and else the primary bytes followed by the chunks under the counters 0, 1,
\* ... below the first missing one, after one read per counter up to and
\* including the missing one, without overflow of the counter.
FirstMissing == SetMin((0..(U8Max + 1)) \ DOMAIN fdb.chunks)

RECURSIVE ChunksBelow(_)
ChunksBelow(n) == IF n = 0 THEN << >> ELSE ChunksBelow(n - 1) \o fdb.chunks[n - 1]

ExpectedValue ==
    IF fdb.primary = None THEN None
    ELSE IF Len(fdb.primary[1]) < MAX_VALUE_SIZE THEN fdb.primary
    ELSE Some(fdb.primary[1] \o ChunksBelow(FirstMissing))

C18_ChunkedRead ==
    Cardinality(DOMAIN fdb.chunks) <= U8Max =>
       /\ reader.pc # "panicked"
       /\ reader.n_reads <= FirstMissing + 1
       /\ reader.pc = "loop" => reader.key <= FirstMissing /\ reader.n_reads = reader.key
       /\ reader.pc = "done" =>
             /\ GetValueResult = ExpectedValue
             /\ reader.result[1].kind # "Chunked" => reader.n_reads = 0
             /\ reader.result[1].kind = "Chunked" => reader.n_reads = FirstMissing + 1

\* C18 witness: a value continued under u8::MAX continuation keys, the
\* largest number, has been read to its end.
C18_Witness ==
    /\ reader.pc = "done"
    /\ reader.result[1].kind = "Chunked"
    /\ reader.result[1].n_chunks = U8Max
    /\ Len(reader.result[1].bytes) = MAX_VALUE_SIZE + U8Max

\* C19: after append_messages has applied a list of entries whose uids
\* ascend and exceed the current uid_max (the list may be empty), uid_to_id
\* maps every appended uid to the entry's message id, uid_to_id and
\* id_to_imap are inverse to each other on the uids, uid_max is the largest
\* key of uid_to_id (0 without keys) and uid_next = uid_max + 1.
AscendingAbove(ids, uid_max) ==
    /\ \A i \in 1..Len(ids) : ids[i].uid > uid_max
    /\ \A i, j \in 1..Len(ids) : i < j => ids[i].uid < ids[j].uid

InverseOnUids(S) ==
    /\ DOMAIN S.uid_to_id = Uids(S.id_to_imap)
    /\ \A uid \in DOMAIN S.uid_to_id :
          /\ S.uid_to_id[uid] \in DOMAIN S.id_to_imap
          /\ S.id_to_imap[S.uid_to_id[uid]].uid = uid

C19_AppendStep(t) ==
    LET ids == created_ids[t] IN
    (AppendApplies(t) /\ AscendingAbove(ids, state.uid_max) /\ InverseOnUids(state)
        /\ state.uid_max = (IF DOMAIN state.uid_to_id = {} THEN 0
                             ELSE SetMax(DOMAIN state.uid_to_id)))
       => /\ \A i \in 1..Len(ids) :
                /\ ids[i].uid \in DOMAIN state'.uid_to_id
                /\ state'.uid_to_id[ids[i].uid] = ids[i].id
          /\ InverseOnUids(state')
          /\ state'.uid_max = (IF DOMAIN state'.uid_to_id = {} THEN 0
                                ELSE SetMax(DOMAIN state'.uid_to_id))
          /\ state'.uid_next = state'.uid_max + 1

C19_AppendKeepsInvariants ==
    [][\A t \in Tasks : (pc[t] = "ingest" /\ pc'[t] = "idle") => C19_AppendStep(t)]_vars

\* C20: when write_mailbox_changes installs a staged snapshot that holds a
\* message that was not in the session's id_to_imap just before, it emits
\* EXISTS with the new total_messages.
C20_EmitStep(t) ==
    LET staged == state.next_state[1].next_state IN
    (\E id \in DOMAIN staged.id_to_imap : id \notin DOMAIN state.id_to_imap)
       => /\ Len(buf'[t]) >= 1
          /\ buf'[t][Len(buf'[t])] = Response("EXISTS", staged.total_messages, << >>)

C20_NewMessageExists ==
    [][\A t \in Tasks :
          (pc[t] = "emit" /\ pc'[t] # "emit" /\ state.next_state # None)
             => C20_EmitStep(t)]_vars

\* C15: for a sequence set that is not a saved search, sequence_to_ids
\* returns exactly the entries of the current id_to_imap whose uid (UID form,
\* '*' being uid_max) or seqnum (otherwise, '*' being total_messages) the set
\* contains, the empty map when id_to_imap is empty, and leaves the state as
\* it is, with or without a pending transition.
C15_Selected ==
    {id \in DOMAIN state.id_to_imap :
        Contains(sequence[1],
                 IF is_uid THEN state.id_to_imap[id].uid ELSE state.id_to_imap[id].seqnum,
                 IF is_uid THEN state.uid_max ELSE state.total_messages)}

C15_ResolveStep(t) ==
    /\ result'[t] = Some([id \in C15_Selected |-> state.id_to_imap[id]])
    /\ DOMAIN state.id_to_imap = {} => result'[t] = Some(EmptyMap)
    /\ state' = state
    /\ saved_search' = saved_search

C15_SequenceToIds ==
    [][\A t \in Tasks :
          (/\ pc[t] = "resolve"
           /\ pc'[t] = "resolved"
           /\ op[t] = "sequence_to_ids"
           /\ ~is_saved_search(sequence[1]))
             => C15_ResolveStep(t)]_vars

\* C15 witness: with a transition pending, in which a deletion is staged,
\* the UID form of 2:* has returned the one entry that id_to_imap still
\* holds, which is the whole map.
C15_Witness ==
    /\ pc[1] = "resolved"
    /\ op[1] = "sequence_to_ids"
    /\ sequence = Some([kind |-> "Set", items |-> {<< 2, 0 >>}])
    /\ is_uid
    /\ PendingDeletions # << >>
    /\ Cardinality(DOMAIN state.id_to_imap) = 1
    /\ result[1] = Some(state.id_to_imap)

\* C16: for the saved-search reference, sequence_to_ids fails with
\* NoSavedSearch when no search is saved, and otherwise the keys of its
\* result are exactly the message ids of the messages of the current state
\* whose uid is in the saved list.
SavedUids == {saved_search[1][i].uid : i \in 1..Len(saved_search[1])}

C16_ResolveStep(t) ==
    IF saved_search = None
    THEN result'[t] = Some(Err("NoSavedSearch"))
    ELSE DOMAIN result'[t][1] =
            {id \in DOMAIN state.id_to_imap : state.id_to_imap[id].uid \in SavedUids}

C16_SavedSearchKeys ==
    [][\A t \in Tasks :
          (/\ pc[t] = "resolve"
           /\ pc'[t] = "resolved"
           /\ op[t] = "sequence_to_ids"
           /\ is_saved_search(sequence[1]))
             => C16_ResolveStep(t)]_vars

\* C16, where every message of the state came from fetch_messages.
C16_FetchedKeys ==
    [][\A t \in Tasks :
          (/\ pc[t] = "resolve"
           /\ pc'[t] = "resolved"
           /\ op[t] = "sequence_to_ids"
           /\ is_saved_search(sequence[1])
           /\ ~appended)
             => C16_ResolveStep(t)]_vars

\* C17: sequence_expand_missing returns, ascending and without duplicates,
\* the elements of sequence.expand(limit) that the state does not hold: in
\* the UID form (limit uid_max) the uids that are no key of uid_to_id,
\* otherwise (limit total_messages) the numbers above total_messages; for
\* the saved search, the uids (UID form) or seqnums of the saved entries
\* whose uid is no key of uid_to_id.
C17_Missing ==
    IF ~is_saved_search(sequence[1])
    THEN IF is_uid
         THEN {u \in Range(Expand(sequence[1], state.uid_max)) :
                  u \notin DOMAIN state.uid_to_id}
         ELSE {n \in Range(Expand(sequence[1], state.total_messages)) :
                  n > state.total_messages}
    ELSE IF saved_search = None THEN {}
    ELSE {IF is_uid THEN id.uid ELSE id.seqnum :
             id \in {x \in Range(saved_search[1]) : x.uid \notin DOMAIN state.uid_to_id}}

C17_ExpandStep(t) ==
    LET r == result'[t][1] IN
    /\ \A i, j \in 1..Len(r) : i < j => r[i] < r[j]
    /\ Range(r) = C17_Missing

C17_ExpandMissing ==
    [][\A t \in Tasks :
          (/\ pc[t] = "resolve"
           /\ pc'[t] = "resolved"
           /\ op[t] = "sequence_expand_missing")
             => C17_ExpandStep(t)]_vars

\* C17 witness: the UID form of 1:3 has reported the uids 1 and 3, in this
\* order, for a state that holds uid 2 alone.
C17_Witness ==
    /\ pc[1] = "resolved"
    /\ op[1] = "sequence_expand_missing"
    /\ sequence = Some([kind |-> "Set", items |-> {<< 1, 3 >>}])
    /\ is_uid
    /\ DOMAIN state.uid_to_id = {2}
    /\ result[1] = Some(<< 1, 3 >>)

\* C17 witness for the saved search: the search was saved with two entries,
\* one of which has left the state since, and its uid was reported.
C17_WitnessSaved ==
    /\ pc[1] = "resolved"
    /\ op[1] = "sequence_expand_missing"
    /\ sequence = Some(SavedSearch)
    /\ is_uid
    /\ saved_search # None
    /\ Len(saved_search[1]) = 2
    /\ Len(result[1][1]) = 1

\* C21: every message that sequence_to_ids returns for the saved-search
\* reference comes with the ImapId it has in the current id_to_imap, seqnum
\* included.
C21_ResolveStep(t) ==
    saved_search # None =>
        \A id \in DOMAIN result'[t][1] :
            /\ id \in DOMAIN state.id_to_imap
            /\ result'[t][1][id] = state.id_to_imap[id]

C21_SavedSearchCurrentIds ==
    [][\A t \in Tasks :
          (/\ pc[t] = "resolve"
           /\ pc'[t] = "resolved"
           /\ op[t] = "sequence_to_ids"
           /\ is_saved_search(sequence[1]))
             => C21_ResolveStep(t)]_vars

MessagesRead(t) == message_ids[t] \cap DOMAIN mailbox
ReadUnder(t, uid) == {m \in MessagesRead(t) : mailbox[m] = uid}
DuplicateUids(t) ==
    {uid \in Range(mailbox) : Cardinality(ReadUnder(t, uid)) >= 2}

C23_FetchStep(t) ==
    /\ new_state'[t] # None
    /\ \A uid \in DuplicateUids(t) :
          /\ new_state'[t][1].uid_to_id[uid] = SetMin(ReadUnder(t, uid))
          /\ \A m \in ReadUnder(t, uid) \ {SetMin(ReadUnder(t, uid))} :
                m \notin DOMAIN new_state'[t][1].id_to_imap
    /\ new_state'[t][1].total_messages =
          Cardinality({mailbox[m] : m \in MessagesRead(t)})

C23_DuplicateUidKeepsFirst ==
    [][\A t \in Tasks :
          (/\ pc[t] = "get_properties"
           /\ pc'[t] # "get_properties"
           /\ DuplicateUids(t) # {})
             => C23_FetchStep(t)]_vars

\* What fetch_messages does with a duplicate uid where it returns: the
\* snapshot keeps the last message read under the uid.
C23_DuplicateUidKeepsLast ==
    [][\A t \in Tasks :
          (/\ pc[t] = "get_properties"
           /\ pc'[t] = "fetched"
           /\ DuplicateUids(t) # {})
             => /\ \A uid \in DuplicateUids(t) :
                      /\ new_state'[t][1].uid_to_id[uid] = SetMax(ReadUnder(t, uid))
                      /\ \A m \in ReadUnder(t, uid) \ {SetMax(ReadUnder(t, uid))} :
                            m \notin DOMAIN new_state'[t][1].id_to_imap
                /\ new_state'[t][1].total_messages =
                      Cardinality({mailbox[m] : m \in MessagesRead(t)})]_vars

\* C24: under any interleaving of read_trx calls, a transaction that finds
\* the cached version unexpired is pinned to that version; one that finds it
\* expired is pinned to the version it obtained from the database and puts
\* that version into the cache; and the cached version never decreases.
C24_PinStep(t) ==
    /\ (trx[t].pc \in {"idle", "done", "failed"} /\ trx'[t].pc = "done"
          /\ trx'[t] # trx[t])
          => (~version.expired /\ trx'[t].pinned = Some(version.version))
    /\ (trx[t].pc = "get_read_version" /\ trx'[t].pc = "set_version")
          => (trx[t].is_expired /\ trx'[t].read_version = db_version)
    /\ (trx[t].pc = "set_version" /\ trx'[t].pc = "done")
          => /\ trx'[t].pinned = Some(trx[t].read_version)
             /\ version'.version = trx[t].read_version
             /\ ~version'.expired

\* C24 as a whole: every read_trx step pins as C24_PinStep says, and no step
\* replaces the cached version by an older one.
C24_ReadVersionCache ==
    [][/\ \A t \in Tasks : C24_PinStep(t)
       /\ version'.version >= version.version]_vars

\* The pinning of C24 alone, without the cached version's monotonicity.
C24_Pinned == [][\A t \in Tasks : C24_PinStep(t)]_vars

====
